---- MODULE Spec2Model ----
(***************************************************************************)
(* Hybrid phishing detector: predictor.py (MLPredictor, PhishingDetector,  *)
(* train_from_csv), features.py (extract_features_from_url) and the admin  *)
(* routes of app.py that trigger retraining.                               *)
(*                                                                         *)
(* Conventions.  A text is a sequence of one-character strings.  The two   *)
(* characters "U+200B" (zero-width space) and "U+00E9" (e-acute) stand     *)
(* for one code point each.  Scores and probabilities are integers in      *)
(* units of 1/10000; weights are in tenths; thresholds are in hundredths;  *)
(* a final score is in units of 1/1000000, so that every product of the    *)
(* combination formula is exact.                                           *)
(***************************************************************************)
EXTENDS Integers, Sequences, FiniteSets, TLC

VARIABLES
  model,        \* ml_predictor.model: the live ensemble of the serving process
  model_file,   \* the persisted file models/ensemble_model.joblib
  writers,      \* training runs inside joblib.dump on model_file
  clash,        \* training runs whose dump overlapped another run's dump
  made,         \* number of ensemble objects built so far (fresh identities)
  pc,           \* position of every request thread
  req,          \* the request a training thread serves
  ensemble,     \* train_from_csv's local `ensemble`
  ret,          \* what a training request returned
  d_avg,        \* predict_proba: the bundle line 76 read
  d_pm,         \* predict_proba: the bundle lines 78-79 read
  d_in,         \* detect: the call's inputs (text, settings, lookup outcome)
  result,       \* what a detect call returned
  loader,       \* a second process importing predictor.py: its MLPredictor()
  text,         \* scoring runs: the input text of the calls
  appended,     \* scoring runs: how many signals were appended to the text
  settings,     \* scoring runs: the Settings the caller passes
  calls         \* scoring runs: the results of the last two calls

vars == <<model, model_file, writers, clash, made, pc, req, ensemble, ret,
          d_avg, d_pm, d_in, result, loader, text, appended, settings, calls>>

lifeVars == <<model, model_file, writers, clash, made, pc, req, ensemble, ret,
              d_avg, d_pm, d_in, result, loader>>

scoreVars == <<text, appended, settings, calls>>

-----------------------------------------------------------------------------
(* Characters and strings                                                  *)

LowerLetters ==
  {"a","b","c","d","e","f","g","h","i","j","k","l","m",
   "n","o","p","q","r","s","t","u","v","w","x","y","z"}

UpperLetters ==
  {"A","B","C","D","E","F","G","H","I","J","K","L","M",
   "N","O","P","Q","R","S","T","U","V","W","X","Y","Z"}

Digits == {"0","1","2","3","4","5","6","7","8","9"}

ZeroWidthChars == {"U+200B", "U+200C", "U+200D", "U+FEFF"}

NonAsciiChars == ZeroWidthChars \cup {"U+00E9"}

LowerOf ==
  [c \in UpperLetters |->
     CASE c = "A" -> "a" [] c = "B" -> "b" [] c = "C" -> "c" [] c = "D" -> "d"
       [] c = "E" -> "e" [] c = "F" -> "f" [] c = "G" -> "g" [] c = "H" -> "h"
       [] c = "I" -> "i" [] c = "J" -> "j" [] c = "K" -> "k" [] c = "L" -> "l"
       [] c = "M" -> "m" [] c = "N" -> "n" [] c = "O" -> "o" [] c = "P" -> "p"
       [] c = "Q" -> "q" [] c = "R" -> "r" [] c = "S" -> "s" [] c = "T" -> "t"
       [] c = "U" -> "u" [] c = "V" -> "v" [] c = "W" -> "w" [] c = "X" -> "x"
       [] c = "Y" -> "y" [] c = "Z" -> "z"]

\* str.lower()
Lower(s) == [i \in 1..Len(s) |-> IF s[i] \in UpperLetters THEN LowerOf[s[i]] ELSE s[i]]

\* s[i:] with a 1-based first index
Drop(s, n) == SubSeq(s, n + 1, Len(s))

Take(s, n) == SubSeq(s, 1, n)

\* s.startswith(p)
StartsWith(s, p) == Len(p) <= Len(s) /\ Take(s, Len(p)) = p

\* s.endswith(p)
EndsWith(s, p) == Len(p) <= Len(s) /\ Drop(s, Len(s) - Len(p)) = p

\* the positions at which p occurs in s
Occurrences(s, p) == {i \in 1..(Len(s) - Len(p) + 1) : SubSeq(s, i, i + Len(p) - 1) = p}

\* p in s
Contains(s, p) == Len(p) = 0 \/ Occurrences(s, p) # {}

Min(a, b) == IF a <= b THEN a ELSE b

Max(a, b) == IF a >= b THEN a ELSE b

SetMin(S) == CHOOSE x \in S : \A y \in S : x <= y

RECURSIVE CountFrom(_, _, _)
\* s.count(p): occurrences of p in s, scanned left to right without overlap
CountFrom(s, p, i) ==
  IF i + Len(p) - 1 > Len(s) THEN 0
  ELSE IF SubSeq(s, i, i + Len(p) - 1) = p THEN 1 + CountFrom(s, p, i + Len(p))
  ELSE CountFrom(s, p, i + 1)

Count(s, p) == CountFrom(s, p, 1)

\* number of positions of s holding a character of the set C
CountIn(s, C) == Cardinality({i \in 1..Len(s) : s[i] \in C})

\* set(s)
CharSet(s) == {s[i] : i \in 1..Len(s)}

\* first position of character c in s, 0 when absent
Find(s, c) == IF \E i \in 1..Len(s) : s[i] = c
              THEN SetMin({i \in 1..Len(s) : s[i] = c}) ELSE 0

\* first position in s of any character of C, Len(s)+1 when none
FindAny(s, C) == IF \E i \in 1..Len(s) : s[i] \in C
                 THEN SetMin({i \in 1..Len(s) : s[i] \in C}) ELSE Len(s) + 1

RECURSIVE Split(_, _)
\* s.split(c)
Split(s, c) ==
  LET i == Find(s, c)
  IN  IF i = 0 THEN <<s>> ELSE <<Take(s, i - 1)>> \o Split(Drop(s, i), c)

RECURSIVE Strip(_)
\* str.strip() for the blank
Strip(s) ==
  IF Len(s) > 0 /\ s[1] = " " THEN Strip(Drop(s, 1))
  ELSE IF Len(s) > 0 /\ s[Len(s)] = " " THEN Strip(Take(s, Len(s) - 1))
  ELSE s

RECURSIVE Repeat(_, _)
Repeat(s, n) == IF n = 0 THEN <<>> ELSE s \o Repeat(s, n - 1)

RECURSIVE SumSeq(_)
SumSeq(q) == IF q = <<>> THEN 0 ELSE q[1] + SumSeq(Drop(q, 1))

-----------------------------------------------------------------------------
(* urllib.parse.urlparse, as far as features.py and predictor.py use it    *)

SchemeChars == LowerLetters \cup UpperLetters \cup Digits \cup {"+", "-", "."}

\* the scheme split of urlsplit: position of the ':' that ends a scheme, or 0
SchemeEnd(url) ==
  LET i == Find(url, ":")
  IN  IF i > 1 /\ url[1] \in (LowerLetters \cup UpperLetters)
         /\ \A k \in 1..(i - 1) : url[k] \in SchemeChars
      THEN i ELSE 0

\* hostname: the text up to the port colon, or what the brackets of an IPv6
\* literal enclose
HostOfHostinfo(hostinfo, br) ==
  IF br > 0
  THEN Take(Drop(hostinfo, br), FindAny(Drop(hostinfo, br), {"]"}) - 1)
  ELSE Take(hostinfo, FindAny(hostinfo, {":"}) - 1)

\* netloc.rpartition('@')[2]
AfterLastAt(netloc, ats) ==
  IF ats = {} THEN netloc ELSE Drop(netloc, CHOOSE i \in ats : \A j \in ats : j <= i)

HostOfHostinfo1(hostinfo) == HostOfHostinfo(hostinfo, Find(hostinfo, "["))

\* SplitResult.hostname: the netloc after the last '@', up to the port, lower-cased
HostOfNetloc(netloc) ==
  Lower(HostOfHostinfo1(AfterLastAt(netloc, {i \in 1..Len(netloc) : netloc[i] = "@"})))

\* urlsplit, last step: the query is what follows the first '?'
SplitQuery(scheme, netloc, rest, qm) ==
  [ok       |-> (Find(netloc, "[") > 0) = (Find(netloc, "]") > 0),
   scheme   |-> scheme,
   netloc   |-> netloc,
   path     |-> IF qm > 0 THEN Take(rest, qm - 1) ELSE rest,
   query    |-> IF qm > 0 THEN Drop(rest, qm) ELSE <<>>,
   hostname |-> IF (Find(netloc, "[") > 0) = (Find(netloc, "]") > 0)
                THEN HostOfNetloc(netloc) ELSE <<>>]

SplitQuery1(scheme, netloc, rest) == SplitQuery(scheme, netloc, rest, Find(rest, "?"))

\* urlsplit: the fragment is what follows the first '#'
SplitFragment(scheme, netloc, rest, hash) ==
  SplitQuery1(scheme, netloc, IF hash > 0 THEN Take(rest, hash - 1) ELSE rest)

\* urlsplit: after "//" the netloc runs to the first of '/', '?', '#'
SplitNetloc(scheme, afterSl, delim) ==
  SplitFragment(scheme, Take(afterSl, delim - 1), Drop(afterSl, delim - 1),
                Find(Drop(afterSl, delim - 1), "#"))

\* urlsplit: a netloc is there when the rest starts with "//"
SplitRest(scheme, rest) ==
  IF StartsWith(rest, <<"/", "/">>)
  THEN SplitNetloc(scheme, Drop(rest, 2), FindAny(Drop(rest, 2), {"/", "?", "#"}))
  ELSE SplitFragment(scheme, <<>>, rest, Find(rest, "#"))

SplitScheme(url, se) ==
  IF se > 0 THEN SplitRest(Lower(Take(url, se - 1)), Drop(url, se))
  ELSE SplitRest(<<>>, url)

\* urlparse(url): ok = FALSE when it raises ValueError (a bracket without its
\* partner in the netloc); hostname is <<>> where Python gives None
urlparse(url) == SplitScheme(url, SchemeEnd(url))

-----------------------------------------------------------------------------
(* features.py                                                             *)

TRUSTED_DOMAINS ==
  { <<"o","p","e","n","a","i",".","c","o","m">>,
    <<"g","i","t","h","u","b",".","c","o","m">>,
    <<"p","y","t","h","o","n",".","o","r","g">>,
    <<"w","i","k","i","p","e","d","i","a",".","o","r","g">>,
    <<"e","x","a","m","p","l","e",".","c","o","m">> }

SUSPICIOUS_TOKENS ==
  { <<"l","o","g","i","n">>, <<"v","e","r","i","f","y">>, <<"u","p","d","a","t","e">>,
    <<"s","e","c","u","r","e">>, <<"a","c","c","o","u","n","t">>,
    <<"p","a","s","s","w","o","r","d">>, <<"b","a","n","k">>, <<"p","r","i","z","e">>,
    <<"r","e","w","a","r","d">>, <<"f","r","e","e">>, <<"c","l","i","c","k">>,
    <<"u","r","g","e","n","t">>, <<"c","o","n","f","i","r","m">>, <<"r","e","s","e","t">>,
    <<"w","i","n","n","e","r">>, <<"c","l","a","i","m">> }

FEATURE_NAMES ==
  << "url_length", "hostname_length", "path_length", "query_length", "num_digits",
     "num_hyphens", "num_at_symbols", "num_question_marks", "num_equals",
     "num_percent", "num_underscores", "num_dots", "has_ip_address",
     "num_suspicious_tokens", "is_https", "num_non_ascii", "non_ascii_ratio",
     "num_zero_width_chars", "zero_width_ratio", "has_punycode", "num_subdomains",
     "domain_entropy", "tld_risk_score", "domain_age_days" >>

\* IP_RE.match(hostname): four groups of one to three digits
features_IP_RE(hostname) ==
  LET parts == Split(hostname, ".")
  IN  Len(parts) = 4
      /\ \A k \in 1..4 : Len(parts[k]) \in 1..3
                         /\ \A j \in 1..Len(parts[k]) : parts[k][j] \in Digits

\* PUNYCODE_RE.search(s): "xn--" in any letter case
PUNYCODE_RE(s) == Contains(Lower(s), <<"x", "n", "-", "-">>)

\* 1000 * log2(k), rounded, for the host lengths and character counts of the model
Log2Table ==
  << 0, 1000, 1585, 2000, 2322, 2585, 2807, 3000, 3170, 3322, 3459, 3585, 3700,
     3807, 3907, 4000, 4087, 4170, 4248, 4322, 4392, 4459, 4524, 4585, 4644, 4700,
     4755, 4807, 4858, 4907, 4954, 5000 >>

RECURSIVE WeightedLog(_, _)
\* sum over the characters of C of count * log2(count)
WeightedLog(s, C) ==
  IF C = {} THEN 0
  ELSE LET c == CHOOSE x \in C : TRUE
           n == CountIn(s, {c})
       IN  n * Log2Table[n] + WeightedLog(s, C \ {c})

\* shannon_entropy(s) in thousandths of a bit: log2 n - (1/n) * sum c*log2 c
shannon_entropy(s) ==
  IF Len(s) = 0 THEN 0
  ELSE Log2Table[Len(s)] - (WeightedLog(s, CharSet(s)) \div Len(s))

count_subdomains(hostname) ==
  IF Len(hostname) = 0 THEN 0 ELSE Max(Len(Split(hostname, ".")) - 2, 0)

\* TLD_RISK_SCORES.get(tld, 0.2), in 1/10000
get_tld_risk(hostname) ==
  IF Len(hostname) = 0 \/ Find(hostname, ".") = 0 THEN 0
  ELSE LET parts == Split(hostname, ".")
           tld   == Lower(parts[Len(parts)])
       IN  CASE tld = <<"c","o","m">> -> 1000
             [] tld = <<"o","r","g">> -> 500
             [] tld = <<"n","e","t">> -> 1000
             [] tld = <<"x","y","z">> -> 9000
             [] tld = <<"t","o","p">> -> 8000
             [] tld = <<"c","l","u","b">> -> 7000
             [] tld = <<"i","n","f","o">> -> 5000
             [] tld = <<"o","n","l","i","n","e">> -> 6000
             [] OTHER -> 2000

\* what whois.whois(domain) does on one call: it raises, it answers without a
\* creation date, or it answers with a creation date `days` days before now
WhoisRaises == [status |-> "raise", days |-> 0]

WhoisNoDate == [status |-> "none", days |-> 0]

WhoisAge(days) == [status |-> "date", days |-> days]

\* get_domain_age_days(hostname), lookup being what whois does on this call
get_domain_age_days(hostname, lookup) ==
  IF Len(hostname) = 0 THEN 0
  ELSE IF lookup.status = "date" THEN Max(lookup.days, 0)
  ELSE 0

\* lines 133-170 of extract_features_from_url: the 24 values in FEATURE_NAMES order
FeatureVector(url, low, hostname, path, query, n_na, n_zw, lookup) ==
  << Len(url), Len(hostname), Len(path), Len(query),
     CountIn(url, Digits), CountIn(url, {"-"}), CountIn(url, {"@"}),
     CountIn(url, {"?"}), CountIn(url, {"="}), CountIn(url, {"%"}),
     CountIn(url, {"_"}), CountIn(url, {"."}),
     IF features_IP_RE(hostname) THEN 1 ELSE 0,
     Cardinality({t \in SUSPICIOUS_TOKENS : Contains(low, t)}),
     IF StartsWith(low, <<"h","t","t","p","s",":","/","/">>) THEN 1 ELSE 0,
     n_na, (n_na * 10000) \div Max(Len(url), 1),
     n_zw, (n_zw * 10000) \div Max(Len(url), 1),
     IF PUNYCODE_RE(hostname) THEN 1 ELSE 0,
     count_subdomains(hostname),
     shannon_entropy(hostname),
     get_tld_risk(hostname),
     get_domain_age_days(hostname, lookup) >>

\* an extraction that takes the text that does not parse for the hostname
FeaturesOfParsed_Unparsed(url, parsed, lookup) ==
  IF parsed.ok
  THEN FeatureVector(url, Lower(url), parsed.hostname, parsed.path, parsed.query,
                     CountIn(url, NonAsciiChars), CountIn(url, ZeroWidthChars), lookup)
  ELSE FeatureVector(url, Lower(url), url, <<>>, <<>>,
                     CountIn(url, NonAsciiChars), CountIn(url, ZeroWidthChars), lookup)

\* lines 122-131: hostname, path and query are "" when urlparse raises
FeaturesOfParsed(url, parsed, lookup) ==
  IF parsed.ok
  THEN FeatureVector(url, Lower(url), parsed.hostname, parsed.path, parsed.query,
                     CountIn(url, NonAsciiChars), CountIn(url, ZeroWidthChars), lookup)
  ELSE FeatureVector(url, Lower(url), <<>>, <<>>, <<>>,
                     CountIn(url, NonAsciiChars), CountIn(url, ZeroWidthChars), lookup)

FeaturesOfStripped(url, lookup) == FeaturesOfParsed(url, urlparse(url), lookup)

\* extract_features_from_url(url), lookup being what whois does on this call
extract_features_from_url(rawurl, lookup) == FeaturesOfStripped(Strip(rawurl), lookup)

-----------------------------------------------------------------------------
(* predictor.py: the ensemble                                              *)

DEFAULT_ML_WEIGHT == 6

DEFAULT_THRESHOLD == 55

\* _build_estimators: the member names, in dictionary order
EstimatorNames == << "lr", "rf", "nb", "xgb", "cb", "lgb" >>

\* weights = [1, 1, 0.5, 2, 2.5, 2], doubled
VotingWeights == << 2, 2, 1, 4, 5, 4 >>

Clamp01(p) == Max(0, Min(10000, p))

\* est.predict_proba(x)[0, 1] of member i of an ensemble fitted on training table
\* `data`.  The fitted classifiers are library objects (scikit-learn, xgboost,
\* catboost, lightgbm): what the program fixes is that the value is a function of
\* the training table, the member and the 24 features.  This family of functions
\* stands for them; it reads the token count, the IP flag and the domain age.
EstimatorProba(data, i, x) ==
  Clamp01(500 + 1000 * ((data * 5 + i * 3) % 8)
          + 800 * x[14] + 1500 * x[13]
          - (IF x[24] > 365 THEN 2000 ELSE IF x[24] > 0 THEN 500 ELSE 0))

\* VotingClassifier(voting="soft", weights=weights).predict_proba(x)[0, 1]
VotingProba(data, x) ==
  SumSeq([i \in 1..Len(EstimatorNames) |-> VotingWeights[i] * EstimatorProba(data, i, x)])
    \div SumSeq(VotingWeights)

\* the per_model dictionary of predict_proba: a member whose inference raises is
\* listed with 0.0
PerModel(data, x, failing) ==
  [i \in 1..Len(EstimatorNames) |->
     IF EstimatorNames[i] \in failing THEN 0 ELSE EstimatorProba(data, i, x)]

-----------------------------------------------------------------------------
(* predictor.py: PhishingDetector                                          *)

\* IP_RE.match(domain)
IP_RE(domain) ==
  LET parts == Split(domain, ".")
  IN  Len(parts) = 4
      /\ \A k \in 1..4 : Len(parts[k]) \in 1..3
                         /\ \A j \in 1..Len(parts[k]) : parts[k][j] \in Digits

\* 0.1 * log1p(n) in 1/10000, for n = 1 .. 12 token hits
Log1pTable == << 693, 1099, 1386, 1609, 1792, 1946, 2079, 2197, 2303, 2398, 2485, 2565 >>

\* a match of the whole host name only
TrustedFound_Exact(domain, trusted_domains) ==
  \E td \in trusted_domains : Len(td) > 0 /\ domain = td

\* line 105: any(domain.endswith(td) for td in self.trusted_domains if td)
TrustedFound(domain, trusted_domains) ==
  \E td \in trusted_domains : Len(td) > 0 /\ EndsWith(domain, td)

RECURSIVE TotalCount(_, _)
\* sum(low.count(t) for t in S)
TotalCount(low, S) ==
  IF S = {} THEN 0
  ELSE LET t == CHOOSE x \in S : TRUE
       IN  Count(low, t) + TotalCount(low, S \ {t})

\* lines 108-112: sum(token_counts) over the tokens that occur in text.lower()
TokenHits(txt) ==
  TotalCount(Lower(txt), {t \in SUSPICIOUS_TOKENS : Contains(Lower(txt), t)})

TokenFloor(txt) ==
  LET n == TokenHits(txt)
  IN  IF n = 0 THEN 0 ELSE Min(9500, 2000 + Log1pTable[n])

\* lines 114-119
ObfuscationFloor(txt, domain) ==
  IF CountIn(txt, NonAsciiChars) > 0 \/ CountIn(txt, ZeroWidthChars) > 0 \/ PUNYCODE_RE(domain)
  THEN 6000 ELSE 0

\* lines 121-123
IpFloor(domain) == IF IP_RE(domain) THEN 8000 ELSE 0

\* lines 125-128
DepthFloor(domain) == IF CountIn(domain, {"."}) > 2 THEN 5000 ELSE 0

\* lines 130-133: len(set(text)) / (len(text)+1) > 0.65
EntropyFloor(txt) ==
  IF 100 * Cardinality(CharSet(txt)) > 65 * (Len(txt) + 1) THEN 5500 ELSE 0

\* line 135
AtFloor(txt) == IF CountIn(txt, {"@"}) > 0 THEN 7500 ELSE 0

\* line 136
SpecialFloor(txt) ==
  IF CountIn(txt, {"-"}) > 3 \/ CountIn(txt, {"_"}) > 3 THEN 5000 ELSE 0

\* line 137
LengthFloor(txt) == IF Len(txt) > 75 THEN 5500 ELSE 0

\* the floors of the rules in evaluation order, 0 for a rule that did not trigger
RuleFloors(txt, domain) ==
  << TokenFloor(txt), ObfuscationFloor(txt, domain), IpFloor(domain), DepthFloor(domain),
     EntropyFloor(txt), AtFloor(txt), SpecialFloor(txt), LengthFloor(txt) >>

RuleReasons ==
  << "Suspicious terms detected", "Unicode/obfuscation detected",
     "IP address used in domain", "Subdomain depth suspicious",
     "High URL entropy (path/query)", "Contains '@'", "Many special characters",
     "URL unusually long" >>

RECURSIVE RunningSum(_, _)
\* the floors added up
RunningSum(acc, floors) ==
  IF floors = <<>> THEN acc ELSE RunningSum(acc + floors[1], Drop(floors, 1))

RECURSIVE RunningMax(_, _)
\* heur_score = max(heur_score, floor), rule after rule
RunningMax(acc, floors) ==
  IF floors = <<>> THEN acc ELSE RunningMax(Max(acc, floors[1]), Drop(floors, 1))

RECURSIVE Triggered(_, _)
Triggered(floors, k) ==
  IF k > Len(floors) THEN <<>>
  ELSE (IF floors[k] > 0 THEN <<RuleReasons[k]>> ELSE <<>>) \o Triggered(floors, k + 1)

\* line 139 and the reasons list: what _heuristic_score returns
HeuristicResult(trusted_found, floors) ==
  [score   |-> Min(10000, RunningMax(0, floors)),
   reasons |-> (IF trusted_found THEN <<"Domain is trusted">> ELSE <<>>)
               \o Triggered(floors, 1),
   trusted |-> trusted_found]

\* PhishingDetector._heuristic_score(text, domain) with self.trusted_domains
heuristic_score(txt, domain, trusted_domains) ==
  HeuristicResult(TrustedFound(domain, trusted_domains), RuleFloors(txt, domain))

\* lines 142-147: the threshold argument is the caller's settings dictionary, None,
\* or a number; anything float() rejects gives DEFAULT_THRESHOLD
ThresholdUse(arg) ==
  CASE arg.kind = "dict"   -> arg.value.threshold
    [] arg.kind = "number" -> arg.value
    [] OTHER               -> DEFAULT_THRESHOLD

\* line 150: re.match(r"^(https?:\/\/|www\.)", text) or "." in text
IsUrl(txt) ==
  \/ StartsWith(txt, <<"h","t","t","p",":","/","/">>)
  \/ StartsWith(txt, <<"h","t","t","p","s",":","/","/">>)
  \/ StartsWith(txt, <<"w","w","w",".">>)
  \/ Find(txt, ".") > 0

TextInputLocal == <<"t","e","x","t","i","n","p","u","t",".","l","o","c","a","l">>

HostnameOrEmpty(parsed) == IF parsed.ok THEN parsed.hostname ELSE <<>>

\* lines 153-158: urlparse(text if is_url else "").hostname, "" when it raises
DomainOf(txt) == HostnameOrEmpty(urlparse(IF IsUrl(txt) THEN txt ELSE <<>>))

\* lines 150-158 on the stripped text
PrepareStripped(txt, arg, lookup) ==
  [text      |-> txt,
   is_url    |-> IsUrl(txt),
   feats     |-> extract_features_from_url(IF IsUrl(txt) THEN txt ELSE TextInputLocal,
                                           lookup),
   domain    |-> DomainOf(txt),
   threshold |-> ThresholdUse(arg)]

\* lines 142-158: everything detect computes before it asks the model
DetectPrepare(input_text, arg, lookup) == PrepareStripped(Strip(input_text), arg, lookup)

\* a combination that keeps the configured weight whatever the input
AdaptiveWeight_Fixed(text_len, heur_score, self_ml_weight) == self_ml_weight

\* lines 163-164: the weight of the model's probability, in tenths
AdaptiveWeight(text_len, heur_score, self_ml_weight) ==
  IF text_len > 100 \/ heur_score > 7000 THEN 4 ELSE self_ml_weight

\* the combination without the factor of line 167
FinalScore_Undamped(ml_prob, heur_score, ml_weight, trusted_found) ==
  (ml_prob * ml_weight + heur_score * (10 - ml_weight)) * 10

\* lines 166-167, in 1/1000000
FinalScore(ml_prob, heur_score, ml_weight, trusted_found) ==
  (ml_prob * ml_weight + heur_score * (10 - ml_weight)) * (IF trusted_found THEN 3 ELSE 10)

\* the verdict with strict comparisons
Verdict_Strict(final_score, threshold_use) ==
  IF final_score > threshold_use * 10000 THEN "phishing"
  ELSE IF final_score * 10 > threshold_use * 10000 * 6 THEN "suspicious"
  ELSE "legitimate"

\* line 169; final_score in 1/1000000, threshold_use in 1/100
Verdict(final_score, threshold_use) ==
  IF final_score >= threshold_use * 10000 THEN "phishing"
  ELSE IF final_score * 10 >= threshold_use * 10000 * 6 THEN "suspicious"
  ELSE "legitimate"

\* round(final_score, 4): to the nearest 1/10000, a tie to the even neighbour
Round4(micro) ==
  LET q == micro \div 100
      r == micro % 100
  IN  IF r > 50 \/ (r = 50 /\ q % 2 = 1) THEN q + 1 ELSE q

CombineResult(final, threshold_use) ==
  [final_exact |-> final, final_score |-> Round4(final),
   verdict |-> Verdict(final, threshold_use)]

\* lines 163-169: combination and verdict
Combine(ml_prob, heur_score, text_len, self_ml_weight, trusted_found, threshold_use) ==
  CombineResult(FinalScore(ml_prob, heur_score,
                           AdaptiveWeight(text_len, heur_score, self_ml_weight),
                           trusted_found),
                threshold_use)

FileContent == <<"(","f","i","l","e"," ","c","o","n","t","e","n","t",")">>

\* lines 172-185: the returned dictionary.  final_exact is the unrounded
\* final_score the verdict was taken from; it is not a key of the dictionary.
DetectDict(prep, ml_prob, per_model, h, c) ==
  [input           |-> prep.text,
   domain          |-> IF ~prep.is_url /\ prep.domain = <<>>
                       THEN FileContent ELSE prep.domain,
   type            |-> IF prep.is_url THEN "url" ELSE "file",
   ml_probability  |-> ml_prob,
   heuristic_score |-> h.score,
   final_score     |-> c.final_score,
   final_exact     |-> c.final_exact,
   verdict         |-> c.verdict,
   threshold       |-> prep.threshold,
   trusted         |-> h.trusted,
   reasons         |-> h.reasons \o <<"ML: probability">>,
   per_model       |-> per_model]

\* lines 163-169 for the heuristic result h
DetectCombine(prep, ml_prob, per_model, h, detector_ml_weight) ==
  DetectDict(prep, ml_prob, per_model, h,
             Combine(ml_prob, h.score, Len(prep.text), detector_ml_weight, h.trusted,
                     prep.threshold))

\* lines 161-185: what detect returns, given what predict_proba returned
DetectFinish(prep, ml_prob, per_model, detector_trusted, detector_ml_weight) ==
  DetectCombine(prep, ml_prob, per_model,
                heuristic_score(prep.text, prep.domain, detector_trusted),
                detector_ml_weight)

-----------------------------------------------------------------------------
(* The serving process: request threads, the live model, the model file    *)

NumDetectors == 2

NumTrainers == 2

NumDatasets == 1

\* threads of the WSGI server running /scan
Detectors == {<<"scan", i>> : i \in 1..NumDetectors}

\* threads of the WSGI server running the admin routes /api/retrain, /api/upload_csv
Trainers == {<<"admin", i>> : i \in 1..NumTrainers}

\* a second process that imports predictor.py (admin_app.py and main_app.py are
\* separate Flask applications over the same models/ directory)
Loader == <<"import", 1>>

\* the runs that can train and write the model file
Runs == Trainers \cup {Loader}

Threads == Detectors \cup Runs

\* what an uploaded CSV can be for train_from_csv
CsvKinds == {"nolabel", "nofeatures", "unfittable", "ok"}

\* generate_synthetic_dataset(samples): the training table of the synthetic path.
\* predictor.py imports it at line 50 and no file under src/ defines it; the
\* specification's section 4.3 describes it as a generator that always yields a
\* balanced labelled table.  Tables are named by a number; 0 names this one.
generate_synthetic_dataset == 0

NoBundle == [id |-> -1, data |-> 0]

\* the ensemble the serving process loaded when predictor.py was imported
ShippedBundle == [id |-> 0, data |-> generate_synthetic_dataset]

NoReq == [route |-> "none", csv |-> "none", data |-> 0]

NoInput == [text |-> <<>>]

\* the module-level detector = PhishingDetector(ml_predictor): lines 96-99, 187
DetectorTrusted == TRUSTED_DOMAINS

DetectorMlWeight == DEFAULT_ML_WEIGHT

\* DEFAULT_SETTINGS of app.py, what get_settings() hands to detect_phishing
AppTrusted ==
  { <<"g","o","o","g","l","e",".","c","o","m">>,
    <<"o","p","e","n","a","i",".","c","o","m">>,
    <<"g","i","t","h","u","b",".","c","o","m">> }

DEFAULT_SETTINGS == [threshold |-> 60, ml_weight |-> 85, trusted_domains |-> AppTrusted]

\* the texts the /scan threads submit in the concurrent runs
LifeTexts ==
  { <<"h","t","t","p",":","/","/","a",".","c","o","/","l","o","g","i","n">> }

\* the members whose inference may raise during one predict_proba call
MemberFaults == { {}, {"nb"} }

LifeInit ==
  /\ model = ShippedBundle
  /\ model_file = [st |-> "ok", b |-> ShippedBundle]
  /\ writers = {}
  /\ clash = {}
  /\ made = 0
  /\ pc = [t \in Threads |-> IF t = Loader THEN "start" ELSE "idle"]
  /\ req = [t \in Runs |-> IF t = Loader THEN [NoReq EXCEPT !.route = "startup"] ELSE NoReq]
  /\ ensemble = [t \in Runs |-> NoBundle]
  /\ ret = [t \in Runs |-> "none"]
  /\ d_avg = [d \in Detectors |-> NoBundle]
  /\ d_pm = [d \in Detectors |-> [b |-> NoBundle, failing |-> {}]]
  /\ d_in = [d \in Detectors |-> NoInput]
  /\ result = [d \in Detectors |-> [status |-> "none"]]
  /\ loader = [corrupted |-> FALSE, saw |-> "none", model |-> NoBundle, detect |-> "none"]

\* app.py api_retrain (lines 247-254) -> retrain_model -> MLPredictor.retrain ->
\* _train_model: the request enters the training run
api_retrain(t) ==
  /\ t \in Trainers
  /\ pc[t] = "idle"
  /\ pc' = [pc EXCEPT ![t] = "fit"]
  /\ req' = [req EXCEPT ![t] = [NoReq EXCEPT !.route = "retrain"]]
  /\ UNCHANGED scoreVars
  /\ UNCHANGED <<model, model_file, writers, clash, made, ensemble, ret,
                 d_avg, d_pm, d_in, result, loader>>

\* the uploaded tables of a kind; which rows a table holds matters for the ensemble
\* fitted on it, so only the tables that can be fitted are told apart
CsvTables(kind) == IF kind = "ok" THEN 1..NumDatasets ELSE {1}

\* app.py api_upload_csv, lines 256-266: the upload is saved and train_from_csv called
api_upload_csv(t, kind, data) ==
  /\ t \in Trainers
  /\ pc[t] = "idle"
  /\ pc' = [pc EXCEPT ![t] = "csv_validate"]
  /\ req' = [req EXCEPT ![t] = [route |-> "upload_csv", csv |-> kind, data |-> data]]
  /\ UNCHANGED scoreVars
  /\ UNCHANGED <<model, model_file, writers, clash, made, ensemble, ret,
                 d_avg, d_pm, d_in, result, loader>>

\* a train_from_csv that does not look for the target column
CsvAccepted_Unchecked(kind) == TRUE

\* train_from_csv lines 213-215: whether the table has the target column
CsvAccepted(kind) == kind # "nolabel"

\* train_from_csv lines 208-215: a table without the label column is reported and
\* the function returns False
train_from_csv_validate(t) ==
  /\ t \in Trainers
  /\ pc[t] = "csv_validate"
  /\ IF CsvAccepted(req[t].csv)
     THEN /\ pc' = [pc EXCEPT ![t] = "fit"]
          /\ ret' = ret
     ELSE /\ pc' = [pc EXCEPT ![t] = "done"]
          /\ ret' = [ret EXCEPT ![t] = "False"]
  /\ UNCHANGED scoreVars
  /\ UNCHANGED <<model, model_file, writers, clash, made, req, ensemble,
                 d_avg, d_pm, d_in, result, loader>>

\* _train_model lines 51-57: the estimators are fitted on the synthetic table and a
\* new VotingClassifier object is built
train_model_fit(t) ==
  /\ t \in Runs
  /\ pc[t] = "fit"
  /\ req[t].route \in {"retrain", "startup"}
  /\ ensemble' = [ensemble EXCEPT ![t] = [id |-> made + 1, data |-> generate_synthetic_dataset]]
  /\ made' = made + 1
  /\ pc' = [pc EXCEPT ![t] = "dump"]
  /\ UNCHANGED scoreVars
  /\ UNCHANGED <<model, model_file, writers, clash, req, ret,
                 d_avg, d_pm, d_in, result, loader>>

\* train_from_csv lines 217-227: df[FEATURE_NAMES] raises KeyError when a feature
\* column is absent; the split or a fit raises on a table that cannot be fitted;
\* otherwise a new VotingClassifier object is built
train_from_csv_fit(t) ==
  /\ t \in Trainers
  /\ pc[t] = "fit"
  /\ req[t].route = "upload_csv"
  /\ IF req[t].csv = "ok"
     THEN /\ ensemble' = [ensemble EXCEPT ![t] = [id |-> made + 1, data |-> req[t].data]]
          /\ made' = made + 1
          /\ pc' = [pc EXCEPT ![t] = "dump"]
          /\ ret' = ret
     ELSE /\ pc' = [pc EXCEPT ![t] = "done"]
          /\ ret' = [ret EXCEPT ![t] = "raised"]
          /\ UNCHANGED <<ensemble, made>>
  /\ UNCHANGED scoreVars
  /\ UNCHANGED <<model, model_file, writers, clash, req,
                 d_avg, d_pm, d_in, result, loader>>

\* joblib.dump(ensemble, path), lines 59 and 228: the file is opened for writing,
\* which truncates it
dump_begin(t) ==
  /\ t \in Runs
  /\ pc[t] = "dump"
  /\ pc' = [pc EXCEPT ![t] = "dumping"]
  /\ model_file' = [st |-> "partial", b |-> NoBundle]
  /\ writers' = writers \cup {t}
  /\ clash' = IF writers = {} THEN clash ELSE clash \cup writers \cup {t}
  /\ UNCHANGED scoreVars
  /\ UNCHANGED <<model, made, req, ensemble, ret, d_avg, d_pm, d_in, result, loader>>

\* joblib.dump returns.  The file holds this run's ensemble, unless another run
\* wrote the same path meanwhile: then the bytes of both are interleaved, and once
\* the last of them has returned the file holds that run's ensemble or nothing
\* loadable
dump_end(t) ==
  /\ t \in Runs
  /\ pc[t] = "dumping"
  /\ pc' = [pc EXCEPT ![t] = "swap"]
  /\ writers' = writers \ {t}
  /\ clash' = clash \ {t}
  /\ IF writers \ {t} # {}
     THEN model_file' = [st |-> "partial", b |-> NoBundle]
     ELSE IF t \in clash
     THEN model_file' \in {[st |-> "ok", b |-> ensemble[t]],
                           [st |-> "corrupt", b |-> NoBundle]}
     ELSE model_file' = [st |-> "ok", b |-> ensemble[t]]
  /\ UNCHANGED scoreVars
  /\ UNCHANGED <<model, made, req, ensemble, ret, d_avg, d_pm, d_in, result, loader>>

\* joblib.dump raises in an admin request (the disk is full, the directory is not
\* writable): the exception leaves _train_model or train_from_csv before anything
\* is assigned, and what was written so far stays in the file
dump_raise(t) ==
  /\ t \in Trainers
  /\ pc[t] = "dumping"
  /\ pc' = [pc EXCEPT ![t] = "done"]
  /\ ret' = [ret EXCEPT ![t] = "raised"]
  /\ ensemble' = [ensemble EXCEPT ![t] = NoBundle]
  /\ writers' = writers \ {t}
  /\ clash' = clash \ {t}
  /\ model_file' = [st |-> IF writers \ {t} # {} THEN "partial" ELSE "corrupt",
                    b  |-> NoBundle]
  /\ UNCHANGED scoreVars
  /\ UNCHANGED <<model, made, req, d_avg, d_pm, d_in, result, loader>>

\* a retrain that assigns the new ensemble before it is written to the file
retrain_assign_Early(t) ==
  /\ t \in Trainers
  /\ pc[t] = "dump"
  /\ req[t].route = "retrain"
  /\ model' = ensemble[t]
  /\ UNCHANGED scoreVars
  /\ UNCHANGED <<model_file, writers, clash, made, pc, req, ensemble, ret,
                 d_avg, d_pm, d_in, result, loader>>

\* MLPredictor.retrain lines 86-88: self.model = self._train_model(samples); return True
retrain_assign(t) ==
  /\ t \in Trainers
  /\ pc[t] = "swap"
  /\ req[t].route = "retrain"
  /\ model' = ensemble[t]
  /\ pc' = [pc EXCEPT ![t] = "done"]
  /\ ret' = [ret EXCEPT ![t] = "True"]
  /\ ensemble' = [ensemble EXCEPT ![t] = NoBundle]
  /\ UNCHANGED scoreVars
  /\ UNCHANGED <<model_file, writers, clash, made, req, d_avg, d_pm, d_in, result, loader>>

\* train_from_csv lines 230-232: ml_predictor.model = ensemble; return True
train_from_csv_swap(t) ==
  /\ t \in Trainers
  /\ pc[t] = "swap"
  /\ req[t].route = "upload_csv"
  /\ model' = ensemble[t]
  /\ pc' = [pc EXCEPT ![t] = "done"]
  /\ ret' = [ret EXCEPT ![t] = "True"]
  /\ ensemble' = [ensemble EXCEPT ![t] = NoBundle]
  /\ UNCHANGED scoreVars
  /\ UNCHANGED <<model_file, writers, clash, made, req, d_avg, d_pm, d_in, result, loader>>

-----------------------------------------------------------------------------
(* A second process imports predictor.py: MLPredictor._load_or_train       *)

\* line 65: os.path.exists(self.model_path)
load_exists ==
  /\ pc[Loader] = "start"
  /\ pc' = [pc EXCEPT ![Loader] = IF model_file.st = "missing" THEN "fit" ELSE "load"]
  /\ UNCHANGED scoreVars
  /\ UNCHANGED <<model, model_file, writers, clash, made, req, ensemble, ret,
                 d_avg, d_pm, d_in, result, loader>>

\* a loader whose except clause misses what a damaged file raises
LoadOutcome_Uncaught(file) == IF file.st = "ok" THEN "return" ELSE "raise"

\* a loader that takes what it reads of a file being written for a model
LoadOutcome_TrustsPartial(file) ==
  IF file.st \in {"ok", "partial"} THEN "return" ELSE "retrain"

\* lines 66-72, what the try block ends with for the file it finds: "return" when
\* joblib.load and the dummy inference succeed, "retrain" when either raises and
\* the bare except logs the warning
LoadOutcome(file) == IF file.st = "ok" THEN "return" ELSE "retrain"

\* lines 66-72; an exception the except clause did not catch would leave __init__
load_read ==
  /\ pc[Loader] = "load"
  /\ CASE LoadOutcome(model_file) = "return" ->
            /\ loader' = [loader EXCEPT !.model = model_file.b, !.saw = model_file.st]
            /\ pc' = [pc EXCEPT ![Loader] = "done"]
            /\ ret' = [ret EXCEPT ![Loader] = "loaded"]
       [] LoadOutcome(model_file) = "retrain" ->
            /\ loader' = [loader EXCEPT !.corrupted = TRUE, !.saw = model_file.st]
            /\ pc' = [pc EXCEPT ![Loader] = "fit"]
            /\ ret' = ret
       [] OTHER ->
            /\ loader' = [loader EXCEPT !.corrupted = TRUE, !.saw = model_file.st]
            /\ pc' = [pc EXCEPT ![Loader] = "done"]
            /\ ret' = [ret EXCEPT ![Loader] = "raised"]
  /\ UNCHANGED scoreVars
  /\ UNCHANGED <<model, model_file, writers, clash, made, req, ensemble,
                 d_avg, d_pm, d_in, result>>

\* lines 73 and 37: _train_model returns the new ensemble and __init__ keeps it
load_assign ==
  /\ pc[Loader] = "swap"
  /\ loader' = [loader EXCEPT !.model = ensemble[Loader]]
  /\ pc' = [pc EXCEPT ![Loader] = "done"]
  /\ ret' = [ret EXCEPT ![Loader] = "trained"]
  /\ ensemble' = [ensemble EXCEPT ![Loader] = NoBundle]
  /\ UNCHANGED scoreVars
  /\ UNCHANGED <<model, model_file, writers, clash, made, req,
                 d_avg, d_pm, d_in, result>>

\* the process that was started serves a request: detect() on its own
\* ml_predictor.model (lines 160, 76)
load_detect ==
  /\ pc[Loader] = "done"
  /\ loader.detect = "none"
  /\ loader' = [loader EXCEPT !.detect = IF loader.model = NoBundle THEN "raised"
                                         ELSE "returned"]
  /\ UNCHANGED scoreVars
  /\ UNCHANGED <<model, model_file, writers, clash, made, pc, req, ensemble, ret,
                 d_avg, d_pm, d_in, result>>

-----------------------------------------------------------------------------
(* /scan: detect() in a request thread of the serving process              *)

\* detect lines 141-158: threshold, strip, features (with the whois lookup), domain
detect_begin(d, txt, lookup) ==
  /\ d \in Detectors
  /\ pc[d] = "idle"
  /\ d_in' = [d_in EXCEPT ![d] = DetectPrepare(txt, [kind |-> "dict", value |-> settings], lookup)]
  /\ pc' = [pc EXCEPT ![d] = "avg"]
  /\ UNCHANGED scoreVars
  /\ UNCHANGED <<model, model_file, writers, clash, made, req, ensemble, ret,
                 d_avg, d_pm, result, loader>>

\* predict_proba line 76: self.model is read and the ensemble's predict_proba
\* called, which calls predict_proba of every member (VotingClassifier collects
\* the members' probabilities and averages them).  `raises` is a fault of the
\* aggregator itself, `failing` the members whose inference raises inside this
\* call; nothing catches either, neither here nor in detect (line 160)
predict_avg(d, raises, failing) ==
  /\ d \in Detectors
  /\ pc[d] = "avg"
  /\ IF raises \/ failing # {}
     THEN /\ result' = [result EXCEPT ![d] = [status |-> "raised", failing |-> failing]]
          /\ pc' = [pc EXCEPT ![d] = "done"]
          /\ d_avg' = d_avg
     ELSE /\ d_avg' = [d_avg EXCEPT ![d] = model]
          /\ pc' = [pc EXCEPT ![d] = "per_model"]
          /\ result' = result
  /\ UNCHANGED scoreVars
  /\ UNCHANGED <<model, model_file, writers, clash, made, req, ensemble, ret,
                 d_pm, d_in, loader>>

\* predict_proba lines 77-84: self.model is read again for named_estimators_;
\* a member that raises is listed with 0.0
predict_per_model(d, failing) ==
  /\ d \in Detectors
  /\ pc[d] = "per_model"
  /\ d_pm' = [d_pm EXCEPT ![d] = [b |-> model, failing |-> failing]]
  /\ pc' = [pc EXCEPT ![d] = "finish"]
  /\ UNCHANGED scoreVars
  /\ UNCHANGED <<model, model_file, writers, clash, made, req, ensemble, ret,
                 d_avg, d_in, result, loader>>

\* detect lines 160-185: the returned dictionary; avg_bundle and per_model_bundle
\* record which ensemble object each part was computed from
detect_return(d) ==
  /\ d \in Detectors
  /\ pc[d] = "finish"
  /\ result' = [result EXCEPT ![d] =
       [status           |-> "returned",
        avg_bundle       |-> d_avg[d].id,
        per_model_bundle |-> d_pm[d].b.id,
        value            |-> DetectFinish(d_in[d],
                                          VotingProba(d_avg[d].data, d_in[d].feats),
                                          PerModel(d_pm[d].b.data, d_in[d].feats, d_pm[d].failing),
                                          DetectorTrusted, DetectorMlWeight)]]
  /\ pc' = [pc EXCEPT ![d] = "done"]
  /\ UNCHANGED scoreVars
  /\ UNCHANGED <<model, model_file, writers, clash, made, req, ensemble, ret,
                 d_avg, d_pm, d_in, loader>>

-----------------------------------------------------------------------------
(* The concurrent specifications                                           *)

ScoreIdle ==
  /\ text = <<>>
  /\ appended = 0
  /\ settings = DEFAULT_SETTINGS
  /\ calls = <<>>

Init == LifeInit /\ ScoreIdle

\* the admin requests and the second process's start, without /scan traffic
NextTrain ==
  \/ \E t \in Trainers : api_retrain(t)
  \/ \E t \in Trainers, kind \in CsvKinds :
       \E data \in CsvTables(kind) : api_upload_csv(t, kind, data)
  \/ \E t \in Trainers : train_from_csv_validate(t)
  \/ \E t \in Runs : train_model_fit(t)
  \/ \E t \in Trainers : train_from_csv_fit(t)
  \/ \E t \in Runs : dump_begin(t)
  \/ \E t \in Runs : dump_end(t)
  \/ \E t \in Trainers : dump_raise(t)
  \/ \E t \in Trainers : retrain_assign(t)
  \/ \E t \in Trainers : train_from_csv_swap(t)
  \/ load_exists
  \/ load_read
  \/ load_assign
  \/ load_detect

SpecTrain == Init /\ [][NextTrain]_vars

\* the admin thread that retrains while /scan requests are served
ServeTrainers == {<<"admin", 1>>}

\* /scan requests racing one admin request
NextServe ==
  \/ \E t \in ServeTrainers : api_retrain(t)
  \/ \E t \in ServeTrainers, kind \in CsvKinds :
       \E data \in CsvTables(kind) : api_upload_csv(t, kind, data)
  \/ \E t \in ServeTrainers : train_from_csv_validate(t)
  \/ \E t \in ServeTrainers : train_model_fit(t)
  \/ \E t \in ServeTrainers : train_from_csv_fit(t)
  \/ \E t \in ServeTrainers : dump_begin(t)
  \/ \E t \in ServeTrainers : dump_end(t)
  \/ \E t \in ServeTrainers : dump_raise(t)
  \/ \E t \in ServeTrainers : retrain_assign(t)
  \/ \E t \in ServeTrainers : train_from_csv_swap(t)
  \/ \E d \in Detectors, txt \in LifeTexts, lookup \in {WhoisRaises} : detect_begin(d, txt, lookup)
  \/ \E d \in Detectors, raises \in BOOLEAN, failing \in MemberFaults :
       predict_avg(d, raises, failing)
  \/ \E d \in Detectors, failing \in MemberFaults : predict_per_model(d, failing)
  \/ \E d \in Detectors : detect_return(d)

SpecServe == Init /\ [][NextServe]_vars

-----------------------------------------------------------------------------
(* Claims about the concurrent runs                                        *)

\* C1: every result detect() returns has its ml_probability and its per_model
\* entries computed from one and the same ensemble object, also when a retrain
\* replaces ml_predictor.model while the call is in predict_proba.
C1_OneBundlePerResult ==
  \A d \in Detectors :
    result[d].status = "returned" => result[d].avg_bundle = result[d].per_model_bundle

\* the training runs of admin requests that have started and not yet finished
\* writing the model file
InFlight == {t \in Trainers : pc[t] \in {"fit", "dump", "dumping"}}

\* C2: retraining is serialized: at most one admin-triggered training run is
\* between its start and the end of its write of the model file.
C2_RetrainSerialized == Cardinality(InFlight) <= 1

\* C3: a detect() call never ends by raising: when the ensemble's probability
\* inference raises, the call still returns a result, with ml_probability 0 and
\* an empty per_model.
C3_DetectNeverRaises ==
  \A d \in Detectors : pc[d] = "done" => result[d].status = "returned"

C5_NoLabelChangesNothing ==
  [][\A t \in Trainers :
       (pc[t] = "csv_validate" /\ req[t].csv = "nolabel" /\ pc'[t] # pc[t])
         => (pc'[t] = "done" /\ ret'[t] = "False"
             /\ model' = model /\ model_file' = model_file)]_vars

\* C5 happens: a label-less upload was answered while another run had already
\* replaced the live model
C5_Witness ==
  \E t \in Trainers :
    /\ req[t].csv = "nolabel" /\ pc[t] = "done" /\ ret[t] = "False"
    /\ model # ShippedBundle

\* the members whose inference raised during the predict_proba of d's call
FaultedMembers(d) ==
  IF result[d].status = "raised" THEN result[d].failing ELSE d_pm[d].failing

\* C14: a detect() call during which a member's inference raised still returns:
\* per_model lists all six members, the failing ones with 0.0, and the result
\* carries an ensemble probability.
C14_MemberFaultTolerated ==
  \A d \in Detectors :
    (pc[d] = "done" /\ FaultedMembers(d) # {}) =>
      /\ result[d].status = "returned"
      /\ Len(result[d].value.per_model) = Len(EstimatorNames)
      /\ \A i \in 1..Len(EstimatorNames) :
           EstimatorNames[i] \in FaultedMembers(d) => result[d].value.per_model[i] = 0
      /\ result[d].value.ml_probability \in 0..10000

KnownBundles == {model.id, model_file.b.id, loader.model.id, ShippedBundle.id}

\* C13: ml_predictor.model changes only in the last step of a training run, after
\* that run's fit and its joblib.dump have returned; what is assigned is the
\* ensemble the run built, an object that was never live nor on file before the
\* run; a run that ends by raising leaves ml_predictor.model as it was.
C13_SwapAfterPersist ==
  [][/\ model' # model =>
          \E t \in Trainers :
            /\ pc[t] = "swap" /\ pc'[t] = "done" /\ ret'[t] = "True"
            /\ model' = ensemble[t]
            /\ ensemble[t].id > ShippedBundle.id
            /\ ensemble[t].id # model.id
            /\ t \notin writers
     /\ \A t \in Trainers :
          (pc[t] = "fit" /\ pc'[t] = "dump") =>
            (ensemble'[t].id \notin KnownBundles /\ model' = model)
     /\ \A t \in Trainers :
          (ret[t] # "raised" /\ ret'[t] = "raised") => model' = model]_vars

\* C13 happens: one upload failed in its fit, one retrain failed in its write,
\* and the live ensemble is still the one loaded at import
C13_Witness ==
  /\ \E t \in Trainers : pc[t] = "done" /\ ret[t] = "raised" /\ req[t].csv = "unfittable"
  /\ \E t \in Trainers : pc[t] = "done" /\ ret[t] = "raised" /\ req[t].route = "retrain"
  /\ model = ShippedBundle

-----------------------------------------------------------------------------
(* Scoring runs: detect() called on texts, one call after the other        *)

MaxAppends == 2

\* the texts the runs start from
BaseTexts ==
  { <<"h","t","t","p","s",":","/","/","o","p","e","n","a","i",".","c","o","m","/","d","o","c","s">>,
    <<"h","t","t","p",":","/","/","g","o","o","g","l","e",".","c","o","m","/">>,
    <<"a",".","c","o">>,
    <<"h","t","t","p",":","/","/","s","e","c","u","r","e","-","l","o","g","i","n","3","4","7",".","c","o","m","/","a","x","7","f">>,
    <<"h","e","l","l","o"," ","t","h","e","r","e">>,
    <<"c","a","f","U+00E9"," ","m","e","n","u"," ","o","f"," ","t","h","e"," ","d","a","y">>,
    <<"h","t","t","p",":","/","/","1","9","2",".","1","6","8",".","0",".","1","/","x">> }

\* the suspicious signals a run appends to its text: an '@', a zero-width space,
\* a suspicious token, four hyphens
Signals ==
  { <<"@">>,
    <<"U+200B">>,
    <<"l","o","g","i","n">>,
    <<"-","-","-","-">> }

\* what the whois lookup of get_domain_age_days answers on a call
Lookups == {WhoisRaises, WhoisAge(400)}

\* the trusted lists the admin routes can leave in settings.json (app.py 219-239)
TrustedChoices ==
  { AppTrusted,
    AppTrusted \ { <<"o","p","e","n","a","i",".","c","o","m">> } }

SettingsChoices ==
  { [DEFAULT_SETTINGS EXCEPT !.threshold = th, !.trusted_domains = td] :
      th \in {DEFAULT_THRESHOLD, DEFAULT_SETTINGS.threshold}, td \in TrustedChoices }

\* line 160 and what follows, on the live ensemble `bundle`, no member failing
DetectOn(prep, bundle) ==
  DetectFinish(prep, VotingProba(bundle.data, prep.feats),
               PerModel(bundle.data, prep.feats, {}),
               DetectorTrusted, DetectorMlWeight)

\* detect_phishing(url, settings) -> detector.detect(url, settings)
Detect(input_text, arg, lookup, bundle) ==
  DetectOn(DetectPrepare(input_text, arg, lookup), bundle)

\* the last two results
Push(window, r) == IF Len(window) < 2 THEN Append(window, r) ELSE <<window[2], r>>

ScoreInit ==
  /\ LifeInit
  /\ text \in BaseTexts
  /\ appended = 0
  /\ settings \in SettingsChoices
  /\ calls = <<>>

\* the caller submits the same text with one more signal at its end
append_signal(sig) ==
  /\ appended < MaxAppends
  /\ text' = text \o sig
  /\ appended' = appended + 1
  /\ UNCHANGED <<settings, calls>>
  /\ UNCHANGED lifeVars

\* app.py scan, line 131: r = detect_phishing(url_text, settings)
detect_call(lookup) ==
  /\ calls' = Push(calls, Detect(text, [kind |-> "dict", value |-> settings], lookup, model))
  /\ UNCHANGED <<text, appended, settings>>
  /\ UNCHANGED lifeVars

NextScore ==
  \/ \E sig \in Signals : append_signal(sig)
  \/ \E lookup \in Lookups : detect_call(lookup)

SpecScore == ScoreInit /\ [][NextScore]_vars

-----------------------------------------------------------------------------
(* Claims about the scoring runs                                           *)

\* C8: between two calls of a run where the later text is the earlier text with
\* signals appended and the domain is the same, the heuristic score does not drop.
C8_HeuristicMonotone ==
  (/\ Len(calls) = 2
   /\ StartsWith(calls[2].input, calls[1].input)
   /\ calls[2].domain = calls[1].domain)
    => calls[2].heuristic_score >= calls[1].heuristic_score

\* C9: two calls on the same text with the same settings and the same live
\* ensemble return the same final_score and the same verdict.
C9_Deterministic ==
  (Len(calls) = 2 /\ calls[1].input = calls[2].input)
    => (/\ calls[2].final_score = calls[1].final_score
        /\ calls[2].verdict = calls[1].verdict)

\* settings.trusted_domains as a case-insensitive suffix list
SettingsTrusted == {Lower(td) : td \in settings.trusted_domains}

\* C10: the trusted flag of every result is the suffix match of the result's
\* domain against the trusted_domains of the settings the call was given.
C10_TrustedFromSettings ==
  \A i \in 1..Len(calls) :
    calls[i].trusted <=>
      \E td \in SettingsTrusted : calls[i].domain # <<>> /\ EndsWith(calls[i].domain, td)

\* C17: a text with a zero-width character has a strictly higher obfuscation floor
\* than a text whose only obfuscation signal is a generic non-ASCII character.
C17_GradedObfuscation ==
  (/\ Len(calls) = 2
   /\ CountIn(calls[1].input, NonAsciiChars) > 0
   /\ CountIn(calls[1].input, ZeroWidthChars) = 0
   /\ ~PUNYCODE_RE(calls[1].domain)
   /\ CountIn(calls[2].input, ZeroWidthChars) > 0)
    => ObfuscationFloor(calls[2].input, calls[2].domain)
         > ObfuscationFloor(calls[1].input, calls[1].domain)

-----------------------------------------------------------------------------
(* Combination runs: lines 163-169 of detect() on grids of values          *)

\* ml_probability and heuristic score, in 1/10000
ScoreGrid == {0, 3300, 5500, 9166, 10000}

\* len(text) on both sides of the 100 of line 163
LengthGrid == {20, 101}

\* self.ml_weight, in tenths
WeightGrid == {0, 6, 10}

\* threshold_use, in 1/100
ThresholdGrid == {0, 55, 60, 100}

CombineInputs ==
  [ml : ScoreGrid, heur : ScoreGrid, len : LengthGrid, weight : WeightGrid,
   trusted : BOOLEAN, threshold : ThresholdGrid]

\* lines 163-169 on the values `in`, kept with the values
CombineOf(in) ==
  [in  |-> in,
   out |-> Combine(in.ml, in.heur, in.len, in.weight, in.trusted,
                   ThresholdUse([kind |-> "number", value |-> in.threshold]))]

\* detect() reaches line 163 with these values
combine_call(in) ==
  /\ calls' = <<CombineOf(in)>>
  /\ UNCHANGED <<text, appended, settings>>
  /\ UNCHANGED lifeVars

\* the same values again under a higher threshold
combine_raised(thr) ==
  /\ Len(calls) = 1
  /\ thr > calls[1].in.threshold
  /\ calls' = Append(calls, CombineOf([calls[1].in EXCEPT !.threshold = thr]))
  /\ UNCHANGED <<text, appended, settings>>
  /\ UNCHANGED lifeVars

\* the same values again for a domain that matches a trusted suffix
combine_trusted ==
  /\ Len(calls) = 1
  /\ ~calls[1].in.trusted
  /\ calls' = Append(calls, CombineOf([calls[1].in EXCEPT !.trusted = TRUE]))
  /\ UNCHANGED <<text, appended, settings>>
  /\ UNCHANGED lifeVars

NextCombine ==
  \/ \E in \in CombineInputs : combine_call(in)
  \/ \E thr \in ThresholdGrid : combine_raised(thr)
  \/ combine_trusted

SpecCombine == Init /\ [][NextCombine]_vars

\* C6: the verdict is "phishing" exactly when final_score >= threshold,
\* "suspicious" exactly when 0.6*threshold <= final_score < threshold, "legitimate"
\* otherwise; and the same score under a raised threshold does not go from
\* "legitimate" to "phishing".
C6_VerdictBoundaries ==
  /\ \A i \in 1..Len(calls) :
       LET final == calls[i].out.final_exact
           thr   == calls[i].in.threshold * 10000
       IN  /\ calls[i].out.verdict = "phishing" <=> final >= thr
           /\ calls[i].out.verdict = "suspicious" <=>
                (thr * 6 <= final * 10 /\ final < thr)
           /\ calls[i].out.verdict = "legitimate" <=>
                (final * 10 < thr * 6 /\ final < thr)
  /\ (/\ Len(calls) = 2
      /\ calls[2].out.final_exact = calls[1].out.final_exact
      /\ calls[2].in.threshold >= calls[1].in.threshold
      /\ calls[1].out.verdict = "legitimate")
       => calls[2].out.verdict # "phishing"

\* C6 happens: a score that sits on its threshold is "phishing", and under a
\* raised threshold the same score is "suspicious"
C6_Witness ==
  /\ Len(calls) = 2
  /\ calls[1].out.final_exact = calls[1].in.threshold * 10000
  /\ calls[1].out.final_exact > 0
  /\ calls[1].out.verdict = "phishing"
  /\ calls[2].in.threshold > calls[1].in.threshold
  /\ calls[2].out.verdict = "suspicious"

\* C7: with the same ml_probability, heuristic score, length and weight, the final
\* score of the trusted call is at most 0.3 times that of the untrusted call.
C7_TrustDampening ==
  (/\ Len(calls) = 2
   /\ ~calls[1].in.trusted
   /\ calls[2].in = [calls[1].in EXCEPT !.trusted = TRUE])
    => calls[2].out.final_exact * 10 <= calls[1].out.final_exact * 3

\* C7 happens: a positive score was dampened
C7_Witness ==
  /\ Len(calls) = 2
  /\ ~calls[1].in.trusted
  /\ calls[2].in = [calls[1].in EXCEPT !.trusted = TRUE]
  /\ calls[1].out.final_exact > 0
  /\ calls[2].out.final_exact > 0

-----------------------------------------------------------------------------
(* Single calls: detect() on a text, the ensemble answering any probability *)

\* URLs on hosts of the default trusted list, and inputs of other shapes
ProbeTexts ==
  { <<"h","t","t","p","s",":","/","/","o","p","e","n","a","i",".","c","o","m","/","d","o","c","s">>,
    <<"h","t","t","p","s",":","/","/","a","p","i",".","o","p","e","n","a","i",".","c","o","m","/","v","1">>,
    <<"h","t","t","p",":","/","/","G","i","t","H","u","b",".","c","o","m","/","x">>,
    <<"h","t","t","p",":","/","/","e","v","i","l","o","p","e","n","a","i",".","c","o","m","/","l","o","g","i","n">>,
    <<"h","t","t","p",":","/","/","1","9","2",".","1","6","8",".","0",".","1","/","x">>,
    <<"w","w","w",".","o","p","e","n","a","i",".","c","o","m","/","d","o","c","s">>,
    <<"h","t","t","p",":","/","/","[","a",".","c","o","/","x">>,
    <<"h","e","l","l","o"," ","t","h","e","r","e">>,
    <<"h","t","t","p",":","/","/","a",".","c","o","/">> \o Repeat(<<"x">>, 89),
    <<>> }

\* how the caller passes the threshold: not at all, or as the default settings
ProbeArgs == { [kind |-> "none", value |-> 0], [kind |-> "dict", value |-> DEFAULT_SETTINGS] }

\* line 160 answered with ml_prob, and what follows
DetectWith(prep, ml_prob, bundle) ==
  DetectFinish(prep, ml_prob, PerModel(bundle.data, prep.feats, {}),
               DetectorTrusted, DetectorMlWeight)

ProbeInit ==
  /\ LifeInit
  /\ text \in ProbeTexts
  /\ appended = 0
  /\ settings = DEFAULT_SETTINGS
  /\ calls = <<>>

\* the caller moves on to the same text with one more signal at its end
probe_append(sig) ==
  /\ appended < MaxAppends
  /\ text' = text \o sig
  /\ appended' = appended + 1
  /\ calls' = <<>>
  /\ UNCHANGED settings
  /\ UNCHANGED lifeVars

\* what a call of detect() was given, computed on the way, and returned
ProbeRecord(prep, lookup, ml_prob, bundle) ==
  [kind   |-> "detect",
   lookup |-> lookup,
   url    |-> IF prep.is_url THEN prep.text ELSE TextInputLocal,
   domain |-> prep.domain,
   feats  |-> prep.feats,
   out    |-> DetectWith(prep, ml_prob, bundle)]

\* detector.detect(text, arg) with the ensemble's probability being ml_prob; calls
\* holds the result until the caller moves on
probe_call(ml_prob, arg, lookup) ==
  /\ calls = <<>>
  /\ calls' = <<ProbeRecord(DetectPrepare(text, arg, lookup), lookup, ml_prob, model)>>
  /\ UNCHANGED <<text, appended, settings>>
  /\ UNCHANGED lifeVars

\* extract_features_from_url(text) called on the text as it is
extract_call(lookup) ==
  /\ calls = <<>>
  /\ calls' = <<[kind   |-> "extract",
                 lookup |-> lookup,
                 url    |-> Strip(text),
                 feats  |-> extract_features_from_url(text, lookup)]>>
  /\ UNCHANGED <<text, appended, settings>>
  /\ UNCHANGED lifeVars

NextProbe ==
  \/ \E sig \in Signals : probe_append(sig)
  \/ \E ml_prob \in ScoreGrid, arg \in ProbeArgs, lookup \in Lookups :
       probe_call(ml_prob, arg, lookup)
  \/ \E lookup \in Lookups : extract_call(lookup)

SpecProbe == ProbeInit /\ [][NextProbe]_vars

\* hosts that end with an entry of the default trusted list
DefaultTrustedHosts ==
  { <<"o","p","e","n","a","i",".","c","o","m">>,
    <<"a","p","i",".","o","p","e","n","a","i",".","c","o","m">>,
    <<"g","i","t","h","u","b",".","c","o","m">> }

\* the results of the detect() calls held in calls
Returned == {calls[i].out : i \in {j \in 1..Len(calls) : calls[j].kind = "detect"}}

C12_FeaturesTotal ==
  \A i \in 1..Len(calls) :
    LET f == calls[i].feats
    IN  /\ Len(f) = Len(FEATURE_NAMES)
        /\ Len(f) = 24
        /\ \A k \in 1..Len(f) : f[k] \in Nat
        /\ f[1] = Len(calls[i].url)
        /\ ~urlparse(calls[i].url).ok => (f[2] = 0 /\ f[3] = 0 /\ f[4] = 0)
        /\ calls[i].lookup = WhoisRaises => f[24] = 0

\* C12 happens: a URL with an unclosed bracket, the whois lookup raising
C12_Witness ==
  \E i \in 1..Len(calls) :
    /\ calls[i].kind = "extract"
    /\ Len(calls[i].url) > 0
    /\ ~urlparse(calls[i].url).ok
    /\ calls[i].lookup = WhoisRaises

\* the detect() calls held in calls
DetectCalls == {calls[i] : i \in {j \in 1..Len(calls) : calls[j].kind = "detect"}}

\* C16: the heuristic score lies in [0,1] and is the largest floor among the rules
\* that triggered, 0 when none did; a trusted domain sets the flag and gives the
\* first reason, and the score is what it would be without the match.
C16_MaxOfFloors ==
  \A c \in DetectCalls :
    LET floors == RuleFloors(c.out.input, c.domain)
        score  == c.out.heuristic_score
    IN  /\ score \in 0..10000
        /\ \A k \in 1..Len(floors) : floors[k] <= score
        /\ \/ \E k \in 1..Len(floors) : floors[k] > 0 /\ floors[k] = score
           \/ score = 0 /\ \A k \in 1..Len(floors) : floors[k] = 0
        /\ c.out.trusted <=> TrustedFound(c.domain, DetectorTrusted)
        /\ c.out.trusted => c.out.reasons[1] = "Domain is trusted"
        /\ score = heuristic_score(c.out.input, c.domain, {}).score

\* C16 happens: on a trusted host two rules with different floors triggered
C16_Witness ==
  \E c \in DetectCalls :
    /\ c.out.trusted
    /\ \E j, k \in 1..Len(RuleReasons) :
         LET floors == RuleFloors(c.out.input, c.domain)
         IN  0 < floors[j] /\ floors[j] < floors[k]

HttpScheme == <<"h","t","t","p",":","/","/">>

\* the text starts with http:// or https://
HasScheme(txt) ==
  StartsWith(txt, HttpScheme) \/ StartsWith(txt, <<"h","t","t","p","s",":","/","/">>)

\* C19: for a URL given without a scheme, the domain detect() uses and the
\* hostname, path and query lengths of the feature vector are those of the same URL
\* written with http:// in front.
C19_SchemePrepended ==
  \A c \in DetectCalls :
    (c.out.type = "url" /\ ~HasScheme(c.out.input)) =>
      LET with == urlparse(HttpScheme \o c.out.input)
      IN  with.ok =>
            /\ c.domain = with.hostname
            /\ c.feats[2] = Len(with.hostname)
            /\ c.feats[3] = Len(with.path)
            /\ c.feats[4] = Len(with.query)

\* C20: in every result the verdict agrees with the reported final_score, rounded
\* to 4 decimals, and the reported threshold: "phishing" exactly when
\* final_score >= threshold, "suspicious" exactly when
\* 0.6*threshold <= final_score < threshold, "legitimate" otherwise.
C20_ReportedConsistent ==
  \A i \in 1..Len(calls) :
    LET score == calls[i].out.final_score
        thr   == calls[i].in.threshold * 100
    IN  /\ calls[i].out.verdict = "phishing" <=> score >= thr
        /\ calls[i].out.verdict = "suspicious" <=>
             (thr * 6 <= score * 10 /\ score < thr)
        /\ calls[i].out.verdict = "legitimate" <=>
             (score * 10 < thr * 6 /\ score < thr)

\* C21: a result is trusted only when its domain is a trusted domain or a
\* subdomain of one, that is, ends with "." and the trusted domain.
C21_LabelBoundary ==
  \A c \in DetectCalls :
    c.out.trusted =>
      \E td \in DetectorTrusted :
        c.domain = td \/ EndsWith(c.domain, <<".">> \o td)

====
